---- MODULE Spec2Model ----
(***************************************************************************)
(* LagrangianHydroOperator (laghos_solver.cpp) and its QuadratureData      *)
(* store (laghos_assembly.hpp), run SPMD on NumWorkers MPI ranks.          *)
(*                                                                         *)
(* Every rank owns one operator object: its own quad_data and its own      *)
(* quad_data_is_current flag.  The ranks execute the same call sequence    *)
(* and meet in the collectives (the CG dot products of Mult, the           *)
(* MPI_Allreduce of GetTimeStepEstimate), so one step of the model is one  *)
(* program step taken by all ranks.                                        *)
(*                                                                         *)
(* Doubles are modelled as records: a finite non-negative scaled integer,  *)
(* +infinity, or NaN.  Matrices are modelled by their scalar (1x1) case.   *)
(***************************************************************************)
EXTENDS Integers, Sequences, FiniteSets, TLC

\* ---------------------------------------------------------------- bounds
NumWorkers == 2
zones_cnt == 2

\* ------------------------------------------------- configuration constants
nqp == 1
cfl == 4
gamma == 2
use_viscosity == TRUE

Workers == 1..NumWorkers
Points == 1..(zones_cnt * nqp)

\* ---------------------------------------------------------------- doubles
Fin(n) == [k |-> "fin", v |-> n]
Inf == [k |-> "inf", v |-> 0]
NaN == [k |-> "nan", v |-> 0]

\* IEEE a < b on the modelled (non-negative) doubles: false when either is NaN.
FLess(a, b) ==
    IF a.k = "nan" \/ b.k = "nan" THEN FALSE
    ELSE IF a.k = "inf" THEN FALSE
    ELSE IF b.k = "inf" THEN TRUE
    ELSE a.v < b.v

\* A plausible slip: min written as (a < b) ? a : b, which lets a NaN second
\* argument through.
StdMin_swapped(a, b) == IF FLess(a, b) THEN a ELSE b

\* std::min(a, b): (b < a) ? b : a.
StdMin(a, b) == IF FLess(b, a) THEN b ELSE a

\* The least of a non-empty set of doubles none of which is NaN.
LeastOf(ds) == CHOOSE m \in ds : \A d \in ds : ~FLess(d, m)

\* x / y in double arithmetic for x, y >= 0 (exact on the modelled values).
FDiv(x, y) ==
    IF y = 0 THEN (IF x = 0 THEN NaN ELSE Inf)
    ELSE Fin(x \div y)

\* sqrt on the modelled values (floor of the root).
Sqrt(x) == CHOOSE r \in 0..x : r * r <= x /\ (r + 1) * (r + 1) > x

Max0(x) == IF x > 0 THEN x ELSE 0
Abs(x) == IF x < 0 THEN -x ELSE x

\* ------------------------------------------------------------ state vectors
\* What the finite element library reports at a quadrature point for a state
\* vector: detJ = T->Weight(), e = e_vals(q), jn = |Jpr c| / |c| for the
\* compression direction c, mu = eig_val_data[0].
Nominal == [detJ |-> 1, e |-> 8, jn |-> 2, mu |-> 0]
Perturbed ==
    { [detJ |-> 2, e |-> 8, jn |-> 1, mu |-> -1],
      [detJ |-> 1, e |-> 0, jn |-> 0, mu |-> 0],
      [detJ |-> 1, e |-> -1, jn |-> 1, mu |-> 0],
      [detJ |-> 0, e |-> 8, jn |-> 2, mu |-> 0],
      [detJ |-> -1, e |-> 8, jn |-> 2, mu |-> 0] }

S0 == [w \in Workers |-> [p \in Points |-> Nominal]]

\* The state vectors the callers pass: the nominal state, and the nominal state
\* perturbed at one quadrature point of one rank.
StateVectors ==
    {S0} \cup
    { [S0 EXCEPT ![w][p] = v] : w \in Workers, p \in Points, v \in Perturbed }

\* -------------------------------------------------------------------- state
VARIABLES
    p_assembly,            \* constructor argument pa
    quad_data_is_current,  \* per rank: the memoization flag
    dt_est,                \* per rank: quad_data.dt_est
    stressJinvT,           \* per rank, per point: quad_data.stressJinvT
    Jac0inv,               \* per rank, per point: quad_data.Jac0inv
    rho0DetJ0w,            \* per rank, per point: quad_data.rho0DetJ0w
    h0,                    \* per rank: quad_data.h0
    pc,                    \* where the ranks are: idle (between calls), update
                           \* (at UpdateQuadratureData), updated, aborted
    op,                    \* the call in progress, or the last one completed
    S,                     \* its state vector (the mesh nodes after NewNodes)
    dS_dt,                 \* Mult's output vector, until the next operation
    result,                \* what GetTimeStepEstimate last returned, until a
                           \* Mult, a reset or ComputeDensity is called
    swept,                 \* history: per rank, the points this call's sweep did
    force_applied,         \* history: per rank, the force operator was applied
    after_mult,            \* history: a Mult returned, and no
                           \* GetTimeStepEstimate has since
    readSeq,               \* history: 1 after a reset; 2 after a reset and one
                           \* GetTimeStepEstimate(S); 3 once S is read again
    sweepMin               \* history: per rank, the least candidate of the
                           \* sweeps run since the last reset (none before one)

\* The fields of quad_data.
store == <<dt_est, stressJinvT, Jac0inv, rho0DetJ0w, h0>>

vars == <<p_assembly, quad_data_is_current, store, pc, op, S, dS_dt, result,
          swept, force_applied, after_mult, readSeq, sweepMin>>

ip_weight == 1
h1_order == 1
dim == 2

\* ------------------------------------------------ the quadrature point update
\* MaterialPressure(rho, e) of laghos_solver.hpp.
MaterialPressure(rho, e) == (gamma - 1) * rho * e

\* The MFEM_VERIFY(detJ > 0.0) of the sweep fails at this point.
BadJacobian_nonzero(pt) == pt.detJ = 0

BadJacobian(pt) == ~(pt.detJ > 0)

PointRho(w, p, pt) == (rho0DetJ0w[w][p] \div pt.detJ) \div ip_weight
PointE(pt) == Max0(pt.e)
PointH(w, p, pt) == h0[w] * (pt.jn * Jac0inv[w][p])
SoundSpeed(pt) == Sqrt(gamma * (gamma - 1) * PointE(pt))

\* cfl * h / sound_speed
Candidate(w, p, pt) == FDiv(cfl * PointH(w, p, pt), SoundSpeed(pt))

ViscCoeff(w, p, pt) ==
    2 * PointRho(w, p, pt) * PointH(w, p, pt) * PointH(w, p, pt) * Abs(pt.mu)
    + (IF pt.mu < 0
       THEN (PointRho(w, p, pt) * PointH(w, p, pt) * SoundSpeed(pt)) \div 2
       ELSE 0)

PointStress(w, p, pt) ==
    (-MaterialPressure(PointRho(w, p, pt), PointE(pt)))
    + (IF use_viscosity THEN ViscCoeff(w, p, pt) * pt.mu ELSE 0)

\* stress * Jinv^T * weight * detJ, in the scalar case Jinv = 1 / detJ.
PointStressJinvT(w, p, pt) ==
    (PointStress(w, p, pt) * ip_weight * pt.detJ) \div pt.detJ

\* The first point of rank w at which the sweep over s aborts, 0 if none.
FirstBad(s, w) ==
    IF \E p \in Points : BadJacobian(s[w][p])
    THEN CHOOSE p \in Points :
            BadJacobian(s[w][p]) /\ \A q \in 1..(p - 1) : ~BadJacobian(s[w][q])
    ELSE 0

\* Every sweep starts its minimum afresh, at +infinity.
RECURSIVE DtAfter_fresh(_, _, _, _)
DtAfter_fresh(dt, s, w, n) ==
    IF n = 0 THEN Inf
    ELSE StdMin(DtAfter_fresh(dt, s, w, n - 1), Candidate(w, n, s[w][n]))

\* dt_est of rank w after the sweep has processed points 1..n of s.
RECURSIVE DtAfter(_, _, _, _)
DtAfter(dt, s, w, n) ==
    IF n = 0 THEN dt
    ELSE StdMin(DtAfter(dt, s, w, n - 1), Candidate(w, n, s[w][n]))

\* stressJinvT of rank w after the sweep has processed points 1..n of s.
StoreAfter(old, s, w, n) ==
    [p \in Points |->
        IF p <= n THEN PointStressJinvT(w, p, s[w][p]) ELSE old[p]]

\* The history value m of rank w once a sweep has processed points 1..n of s.
SweepMinAfter(m, s, w, n) ==
    IF m.k = "none" THEN m
    ELSE LeastOf({m} \cup ({Candidate(w, p, s[w][p]) : p \in 1..n} \ {NaN}))

\* ---------------------------------------------------------------- construction
\* Values an uninitialised double of the store may hold: the QuadratureData
\* constructor sets neither dt_est nor the entries of stressJinvT (a rank's
\* fresh allocation is taken to hold one fill value).
UninitDt == {NaN, Fin(0)}
UninitStress == {0, 5}

\* The reference density values rho0.GetValues reports.
Rho0Vals == {2}

NoValue == [k |-> "none", v |-> 0]

\* Sum of the element volumes of rank w's zones on the initial mesh.
RECURSIVE LocArea(_, _)
LocArea(w, n) ==
    IF n = 0 THEN 0 ELSE LocArea(w, n - 1) + S0[w][n].detJ * ip_weight

RECURSIVE SumOver(_, _)
SumOver(f, n) == IF n = 0 THEN 0 ELSE SumOver(f, n - 1) + f[n]

\* quad_data.h0 for Geometry::SQUARE, divided by the H1 order.
InitialH0 ==
    LET glob_area == SumOver([w \in Workers |-> LocArea(w, zones_cnt * nqp)],
                             NumWorkers)
        glob_z_cnt == SumOver([w \in Workers |-> zones_cnt * nqp], NumWorkers)
    IN  Sqrt(glob_area \div glob_z_cnt) \div h1_order

Init ==
    /\ p_assembly \in BOOLEAN
    /\ quad_data_is_current = [w \in Workers |-> FALSE]
    /\ dt_est \in [Workers -> UninitDt]
    /\ \E fill \in [Workers -> UninitStress] :
          stressJinvT = [w \in Workers |-> [p \in Points |-> fill[w]]]
    /\ Jac0inv = [w \in Workers |-> [p \in Points |-> 1 \div S0[w][p].detJ]]
    /\ \E rho0 \in Rho0Vals :
          rho0DetJ0w = [w \in Workers |->
                          [p \in Points |-> S0[w][p].detJ * rho0 * ip_weight]]
    /\ h0 = [w \in Workers |-> InitialH0]
    /\ pc = "idle"
    /\ op = "ctor"
    /\ S = S0
    /\ dS_dt = [set |-> "none", unconverged |-> {}]
    /\ result = NoValue
    /\ swept = [w \in Workers |-> 0]
    /\ force_applied = [w \in Workers |-> FALSE]
    /\ after_mult = FALSE
    /\ readSeq = 0
    /\ sweepMin = [w \in Workers |-> NoValue]

\* ------------------------------------------------------- UpdateQuadratureData
\* The early return never fires: every call sweeps.
SkipSweep_never(w) == FALSE

\* if (quad_data_is_current) { return; }
SkipSweep(w) == quad_data_is_current[w]

\* The sweep of rank w over S stops at a bad Jacobian.
Faults(w) == ~SkipSweep(w) /\ FirstBad(S, w) # 0

\* The number of points the sweep of rank w over S gets through.
SweepEnd(w) ==
    IF FirstBad(S, w) = 0 THEN zones_cnt * nqp ELSE FirstBad(S, w) - 1

\* The sweep also rescales the mass-conservation product.
UpdateQuadratureData_refs ==
    /\ pc = "update"
    /\ \A w \in Workers : ~Faults(w)
    /\ quad_data_is_current' = [w \in Workers |->
          IF SkipSweep(w) THEN quad_data_is_current[w] ELSE TRUE]
    /\ dt_est' = [w \in Workers |->
          IF SkipSweep(w) THEN dt_est[w]
          ELSE DtAfter(dt_est[w], S, w, zones_cnt * nqp)]
    /\ stressJinvT' = [w \in Workers |->
          IF SkipSweep(w) THEN stressJinvT[w]
          ELSE StoreAfter(stressJinvT[w], S, w, zones_cnt * nqp)]
    /\ swept' = [w \in Workers |-> IF SkipSweep(w) THEN 0 ELSE zones_cnt * nqp]
    /\ sweepMin' = [w \in Workers |->
          IF SkipSweep(w) THEN sweepMin[w]
          ELSE SweepMinAfter(sweepMin[w], S, w, zones_cnt * nqp)]
    /\ rho0DetJ0w' = [w \in Workers |-> [p \in Points |->
          IF SkipSweep(w) THEN rho0DetJ0w[w][p]
          ELSE rho0DetJ0w[w][p] * S[w][p].detJ]]
    /\ pc' = "updated"
    /\ UNCHANGED <<p_assembly, Jac0inv, h0, op, S, dS_dt, result,
                   force_applied, after_mult, readSeq>>

\* UpdateQuadratureData(S) runs to its end on every rank: nothing where the
\* flag is set, elsewhere the sweep over all zones and points, which ends by
\* setting the flag.
UpdateQuadratureData ==
    /\ pc = "update"
    /\ \A w \in Workers : ~Faults(w)
    /\ quad_data_is_current' = [w \in Workers |->
          IF SkipSweep(w) THEN quad_data_is_current[w] ELSE TRUE]
    /\ dt_est' = [w \in Workers |->
          IF SkipSweep(w) THEN dt_est[w]
          ELSE DtAfter(dt_est[w], S, w, zones_cnt * nqp)]
    /\ stressJinvT' = [w \in Workers |->
          IF SkipSweep(w) THEN stressJinvT[w]
          ELSE StoreAfter(stressJinvT[w], S, w, zones_cnt * nqp)]
    /\ swept' = [w \in Workers |-> IF SkipSweep(w) THEN 0 ELSE zones_cnt * nqp]
    /\ sweepMin' = [w \in Workers |->
          IF SkipSweep(w) THEN sweepMin[w]
          ELSE SweepMinAfter(sweepMin[w], S, w, zones_cnt * nqp)]
    /\ pc' = "updated"
    /\ UNCHANGED <<p_assembly, Jac0inv, rho0DetJ0w, h0, op, S, dS_dt,
                   result, force_applied, after_mult, readSeq>>

\* MFEM_VERIFY(detJ > 0.0, ...) fails on some rank: mfem_error ends the run
\* on every rank.  A faulting rank has swept the points before its bad one.
\* How far a rank without a bad point got before it was stopped is not
\* determined: it had not begun, or it was through its update (done), and in
\* Mult it may then have applied the force operator locally (forced).
UpdateQuadratureData_abort ==
    /\ pc = "update"
    /\ \E w \in Workers : Faults(w)
    /\ \E done \in SUBSET {w \in Workers : ~Faults(w)} :
       \E forced \in SUBSET done :
          /\ forced # {} => op = "Mult"
          /\ LET n == [w \in Workers |->
                         IF SkipSweep(w) THEN 0
                         ELSE IF Faults(w) THEN SweepEnd(w)
                         ELSE IF w \in done THEN zones_cnt * nqp
                         ELSE 0]
             IN  /\ quad_data_is_current' = [w \in Workers |->
                       IF w \in done /\ ~SkipSweep(w) THEN TRUE
                       ELSE quad_data_is_current[w]]
                 /\ dt_est' = [w \in Workers |->
                       DtAfter(dt_est[w], S, w, n[w])]
                 /\ stressJinvT' = [w \in Workers |->
                       StoreAfter(stressJinvT[w], S, w, n[w])]
                 /\ swept' = n
                 /\ sweepMin' = [w \in Workers |->
                       SweepMinAfter(sweepMin[w], S, w, n[w])]
          /\ force_applied' = [w \in Workers |-> w \in forced]
    /\ pc' = "aborted"
    /\ UNCHANGED <<p_assembly, Jac0inv, rho0DetJ0w, h0, op, S, dS_dt, result,
                   after_mult, readSeq>>

\* ------------------------------------------------------------------------ Mult
\* The CG solves of one Mult: one per velocity component and one for the
\* energy with partial assembly, one for the velocity without.
CGSolves ==
    IF p_assembly
    THEN {<<"velocity", c>> : c \in 1..dim} \cup {<<"energy", 0>>}
    ELSE {<<"velocity", 0>>}

\* ForcePAOperator::Mult / MultTranspose and MassPAOperator::Mult hold a
\* pointer to quad_data; they read the store and write none of its fields.
PAOperatorsApply == UNCHANGED store

\* Mult(S, dS_dt) up to its call of UpdateQuadratureData: dS_dt = 0, and the
\* mesh nodes are set from S.
Mult_entry ==
    /\ pc = "idle"
    /\ \E s \in StateVectors : S' = s
    /\ op' = "Mult"
    /\ dS_dt' = [set |-> "zero", unconverged |-> {}]
    /\ swept' = [w \in Workers |-> 0]
    /\ force_applied' = [w \in Workers |-> FALSE]
    /\ readSeq' = IF readSeq = 1 THEN 1 ELSE 0
    /\ result' = NoValue
    /\ pc' = "update"
    /\ UNCHANGED <<p_assembly, quad_data_is_current, store,
                   after_mult, sweepMin>>

\* Mult returns with the flag left as the update set it.
Mult_solve_keep ==
    /\ pc = "updated"
    /\ op = "Mult"
    /\ force_applied' = [w \in Workers |-> TRUE]
    /\ \E failed \in SUBSET CGSolves :
          dS_dt' = [set |-> "derivative", unconverged |-> failed]
    /\ readSeq' = 0
    /\ pc' = "idle"
    /\ after_mult' = TRUE
    /\ PAOperatorsApply
    /\ UNCHANGED <<p_assembly, quad_data_is_current, op, S, result,
                   swept, sweepMin>>

\* The rest of Mult: the force operator is applied to the store (Force.Assemble
\* or ForcePA.Mult / MultTranspose), the CG solves run (cg.Mult returns
\* whether or not it converged, and its outcome is not read), dS_dt is
\* written, and the flag is cleared.
Mult_solve ==
    /\ pc = "updated"
    /\ op = "Mult"
    /\ force_applied' = [w \in Workers |-> TRUE]
    /\ \E failed \in SUBSET CGSolves :
          dS_dt' = [set |-> "derivative", unconverged |-> failed]
    /\ quad_data_is_current' = [w \in Workers |-> FALSE]
    /\ readSeq' = 0
    /\ pc' = "idle"
    /\ after_mult' = TRUE
    /\ PAOperatorsApply
    /\ UNCHANGED <<p_assembly, op, S, result, swept, sweepMin>>

\* --------------------------------------------------------- GetTimeStepEstimate
\* The values MPI_Allreduce(MPI_MIN) may hand to the ranks: the least of the
\* contributions; with a NaN among them the outcome depends on the order of
\* the pairwise comparisons.
Allreduce_MIN(d) ==
    LET vals == {d[w] : w \in Workers}
        nums == vals \ {NaN}
    IN  IF NaN \notin vals THEN {LeastOf(nums)}
        ELSE {NaN} \cup (IF nums = {} THEN {} ELSE {LeastOf(nums)})

\* GetTimeStepEstimate(S) up to its call of UpdateQuadratureData.
GetTimeStepEstimate_entry ==
    /\ pc = "idle"
    /\ \E s \in StateVectors :
          /\ S' = s
          /\ readSeq' = IF readSeq = 1 THEN 1
                        ELSE IF readSeq \in {2, 3} /\ s = S THEN 3
                        ELSE 0
    /\ op' = "GetTimeStepEstimate"
    /\ swept' = [w \in Workers |-> 0]
    /\ force_applied' = [w \in Workers |-> FALSE]
    /\ dS_dt' = [set |-> "none", unconverged |-> {}]
    /\ pc' = "update"
    /\ UNCHANGED <<p_assembly, quad_data_is_current, store, result,
                   after_mult, sweepMin>>

\* The estimate is read destructively: dt_est is reset once reduced.
GetTimeStepEstimate_reduce_reset ==
    /\ pc = "updated"
    /\ op = "GetTimeStepEstimate"
    /\ \E glob_dt_est \in Allreduce_MIN(dt_est) : result' = glob_dt_est
    /\ dt_est' = [w \in Workers |-> Inf]
    /\ readSeq' = IF readSeq = 1 THEN 2 ELSE readSeq
    /\ after_mult' = FALSE
    /\ pc' = "idle"
    /\ UNCHANGED <<p_assembly, quad_data_is_current, stressJinvT, Jac0inv,
                   rho0DetJ0w, h0, op, S, dS_dt, swept, force_applied,
                   sweepMin>>

\* The rest of GetTimeStepEstimate: the global minimum is taken and returned.
GetTimeStepEstimate_reduce ==
    /\ pc = "updated"
    /\ op = "GetTimeStepEstimate"
    /\ \E glob_dt_est \in Allreduce_MIN(dt_est) : result' = glob_dt_est
    /\ readSeq' = IF readSeq = 1 THEN 2 ELSE readSeq
    /\ after_mult' = FALSE
    /\ pc' = "idle"
    /\ UNCHANGED <<p_assembly, quad_data_is_current, store, op, S, dS_dt, swept,
                   force_applied, sweepMin>>

\* ------------------------------------------------------- ResetTimeStepEstimate
\* numeric_limits<double>::infinity()
ResetValue_zero == Fin(0)

ResetValue == Inf

\* The reset also marks the store stale.
ResetTimeStepEstimate_stale ==
    /\ pc = "idle"
    /\ dt_est' = [w \in Workers |-> ResetValue]
    /\ op' = "ResetTimeStepEstimate"
    /\ readSeq' = 1
    /\ sweepMin' = [w \in Workers |-> Inf]
    /\ dS_dt' = [set |-> "none", unconverged |-> {}]
    /\ result' = NoValue
    /\ quad_data_is_current' = [w \in Workers |-> FALSE]
    /\ UNCHANGED <<p_assembly, stressJinvT, Jac0inv,
                   rho0DetJ0w, h0, pc, S, swept, force_applied, after_mult>>

\* ResetTimeStepEstimate(): dt_est = +infinity, and nothing else.
ResetTimeStepEstimate ==
    /\ pc = "idle"
    /\ dt_est' = [w \in Workers |-> ResetValue]
    /\ op' = "ResetTimeStepEstimate"
    /\ readSeq' = 1
    /\ sweepMin' = [w \in Workers |-> Inf]
    /\ dS_dt' = [set |-> "none", unconverged |-> {}]
    /\ result' = NoValue
    /\ UNCHANGED <<p_assembly, quad_data_is_current, stressJinvT, Jac0inv,
                   rho0DetJ0w, h0, pc, S, swept, force_applied, after_mult>>

\* -------------------------------------------------------------- ComputeDensity
\* ComputeDensity(rho) reads the store through the DensityIntegrator and
\* writes only its argument.
ComputeDensity ==
    /\ pc = "idle"
    /\ op' = "ComputeDensity"
    /\ dS_dt' = [set |-> "none", unconverged |-> {}]
    /\ result' = NoValue
    /\ readSeq' = 0
    /\ UNCHANGED <<p_assembly, quad_data_is_current, store, pc, S, swept,
                   force_applied, after_mult, sweepMin>>

Next ==
    \/ Mult_entry
    \/ GetTimeStepEstimate_entry
    \/ UpdateQuadratureData
    \/ UpdateQuadratureData_abort
    \/ Mult_solve
    \/ GetTimeStepEstimate_reduce
    \/ ResetTimeStepEstimate
    \/ ComputeDensity

Spec == Init /\ [][Next]_vars

\* ---------------------------------------------------------------- properties
AllPoints == zones_cnt * nqp

\* The store of rank w holds what a complete sweep over s writes.
StoreIsSweepOf(s, w) ==
    /\ \A p \in Points : s[w][p].detJ > 0
    /\ \A p \in Points : stressJinvT[w][p] = PointStressJinvT(w, p, s[w][p])

\* The candidates cfl*h/sound_speed of the first n points of rank w on s that
\* are numbers, and those of its points with positive clamped energy.
NumberCandidates(s, w, n) ==
    {Candidate(w, p, s[w][p]) : p \in 1..n} \ {NaN}
WarmCandidates(s, w, n) ==
    {Candidate(w, p, s[w][p]) : p \in {q \in 1..n : s[w][q].e > 0}}

\* The least of dt and the candidates cs, as a running minimum that starts at
\* dt computes it (a NaN start stays).
RunningLeast(dt, cs) == IF dt = NaN THEN NaN ELSE LeastOf({dt} \cup cs)

Returned(o) == pc = "idle" /\ op = o

\* C1: whenever Mult(S) has applied the force operator, the store it consumed
\* is the one a quadrature sweep over that same S computes.
C1_ForceStoreFromSameState ==
    Returned("Mult") => \A w \in Workers : StoreIsSweepOf(S, w)

\* C2 (as claimed): at the start of every quadrature sweep, dt_est is +infinity.
C2_SweepStartsAtInfinity ==
    pc = "update" =>
        \A w \in Workers : ~quad_data_is_current[w] => dt_est[w] = Inf

\* C2 (amended): dt_est is set to +infinity by ResetTimeStepEstimate alone.  A
\* sweep starts from whatever dt_est holds and leaves the running minimum of
\* that value and the candidates on S; it starts at +infinity, and so leaves
\* the minimum of the candidates of that evaluation only, in the call that
\* directly follows a reset.
C2_SweepAfterResetStartsAtInfinity ==
    [][ /\ \A w \in Workers :
              (dt_est'[w] = Inf /\ dt_est[w] # Inf) =>
                  (pc = "idle" /\ op' = "ResetTimeStepEstimate")
        /\ (pc = "update" /\ pc' = "updated") =>
              \A w \in Workers :
                  dt_est'[w] =
                      IF quad_data_is_current[w] THEN dt_est[w]
                      ELSE RunningLeast(dt_est[w],
                                        NumberCandidates(S, w, AllPoints))
        /\ (pc = "update" /\ readSeq = 1) =>
              /\ \A w \in Workers : dt_est[w] = Inf
              /\ pc' = "updated" =>
                    \A w \in Workers :
                        ~quad_data_is_current[w] =>
                            dt_est'[w] =
                                LeastOf({Inf} \cup
                                        NumberCandidates(S, w, AllPoints))
      ]_vars

C2_Witness ==
    /\ pc = "updated"
    /\ readSeq = 1
    /\ \A w \in Workers : swept[w] = AllPoints
    /\ \E w \in Workers : dt_est[w] = Fin(1)

\* C3: whatever came before, GetTimeStepEstimate(S) returns the
\* minimum over all ranks and points of the candidates evaluated on S.
C3_ReturnsMinOverS ==
    Returned("GetTimeStepEstimate") =>
        result = LeastOf({Inf} \cup
                    UNION {NumberCandidates(S, w, AllPoints) : w \in Workers})

\* C4: Mult never hands back a derivative built from a CG solve that did not
\* converge.
C4_NoDerivativeFromUnconvergedSolve ==
    dS_dt.set = "derivative" => dS_dt.unconverged = {}

\* C5: a sweep that meets detJ <= 0 aborts the run there: the rank's flag is
\* not set, its force operator is not applied, no value is handed back, and
\* nothing runs after the abort.
C5_BadJacobianAborts ==
    [][ /\ pc # "aborted"
        /\ pc = "update" =>
              \A w \in Workers :
                  (/\ ~quad_data_is_current[w]
                   /\ \E p \in Points : S[w][p].detJ <= 0)
                  => /\ pc' = "aborted"
                     /\ ~quad_data_is_current'[w]
                     /\ ~force_applied'[w]
                     /\ \E p \in Points :
                           S[w][p].detJ <= 0 /\ swept'[w] = p - 1
                     /\ result' = result
                     /\ dS_dt' = dS_dt
      ]_vars

C5_Witness ==
    /\ pc = "aborted"
    /\ \E w \in Workers :
          /\ ~quad_data_is_current[w]
          /\ S[w][AllPoints].detJ <= 0
          /\ swept[w] = AllPoints - 1
          /\ swept[w] > 0

\* C6: after a reset, a second GetTimeStepEstimate(S) with no reset or Mult in
\* between returns what the first returned.
C6_SecondReadSame ==
    [][ (readSeq = 3 /\ pc = "updated" /\ pc' = "idle") => result' = result ]_vars

C6_Witness ==
    /\ Returned("GetTimeStepEstimate")
    /\ readSeq = 3
    /\ result = Fin(1)

\* C7: a Mult that returns leaves the flag false on either assembly path, and
\* the next call that runs the update engine sweeps every zone and point.
C7_MultLeavesStoreStale ==
    /\ Returned("Mult") => \A w \in Workers : ~quad_data_is_current[w]
    /\ (pc = "updated" /\ after_mult) =>
          \A w \in Workers : swept[w] = AllPoints /\ StoreIsSweepOf(S, w)

C7_Witness ==
    /\ pc = "updated"
    /\ after_mult
    /\ ~p_assembly
    /\ op = "GetTimeStepEstimate"
    /\ \A w \in Workers : swept[w] = AllPoints

\* C8: UpdateQuadratureData with the flag true changes no store field and not
\* the flag; a sweep that completes ends with the flag true.
C8_UpdateIsNoOpWhenCurrent ==
    [][ pc = "update" =>
          \A w \in Workers :
              /\ quad_data_is_current[w] =>
                    /\ stressJinvT'[w] = stressJinvT[w]
                    /\ dt_est'[w] = dt_est[w]
                    /\ Jac0inv'[w] = Jac0inv[w]
                    /\ rho0DetJ0w'[w] = rho0DetJ0w[w]
                    /\ h0'[w] = h0[w]
                    /\ quad_data_is_current'[w]
                    /\ swept'[w] = 0
              /\ (~quad_data_is_current[w] /\ pc' = "updated") =>
                    quad_data_is_current'[w]
      ]_vars

C8_Witness ==
    /\ pc = "updated"
    /\ \A w \in Workers : quad_data_is_current[w] /\ swept[w] = 0
    /\ \E w \in Workers : ~StoreIsSweepOf(S, w)

\* C9: Jac0inv, rho0DetJ0w and h0 are never written after construction, and
\* every sweep that runs rewrites stressJinvT at each of the rank's points.
C9_ReferenceFieldsWriteOnce ==
    [][ /\ Jac0inv' = Jac0inv
        /\ rho0DetJ0w' = rho0DetJ0w
        /\ h0' = h0
        /\ (pc = "update" /\ pc' = "updated") =>
              \A w \in Workers :
                  ~quad_data_is_current[w] =>
                      /\ swept'[w] = AllPoints
                      /\ \A p \in Points :
                            stressJinvT'[w][p] =
                                PointStressJinvT(w, p, S[w][p])
      ]_vars

C9_Witness ==
    /\ pc = "updated"
    /\ after_mult
    /\ \A w \in Workers : swept[w] = AllPoints
    /\ \E w \in Workers, p \in Points :
          /\ S[w][p].detJ # S0[w][p].detJ
          /\ rho0DetJ0w[w][p] = S0[w][p].detJ * 2 * ip_weight
          /\ stressJinvT[w][p] # stressJinvT[w][AllPoints + 1 - p]

\* C10: a point whose clamped energy is 0 leaves dt_est as it is: after a
\* sweep dt_est is the running minimum over the points of positive energy
\* alone, and it is NaN only if it was before.
C10_ZeroEnergyPointIsUnbounded ==
    [][ (pc = "update" /\ pc' # "update") =>
          \A w \in Workers :
              ~quad_data_is_current[w] =>
                  /\ dt_est'[w] =
                        RunningLeast(dt_est[w], WarmCandidates(S, w, swept'[w]))
                  /\ dt_est'[w] = NaN => dt_est[w] = NaN
      ]_vars

C10_Witness ==
    /\ pc = "updated"
    /\ \E w \in Workers :
          /\ swept[w] = AllPoints
          /\ \E p \in Points : S[w][p].e = 0 /\ S[w][p].jn = 0
          /\ dt_est[w] = Fin(2)

\* C11: outside ResetTimeStepEstimate no step raises dt_est (it stays or gets
\* smaller), and what GetTimeStepEstimate returns once a reset has been made
\* is the least candidate, over all ranks, of every sweep run since the last
\* reset, those of the Mult calls in between included.
C11_RunningMinimumSinceReset ==
    [][ /\ ~(pc = "idle" /\ op' = "ResetTimeStepEstimate") =>
              \A w \in Workers :
                  dt_est'[w] = dt_est[w] \/ FLess(dt_est'[w], dt_est[w])
        /\ (/\ pc = "updated"
            /\ op = "GetTimeStepEstimate"
            /\ pc' = "idle"
            /\ \A w \in Workers : sweepMin[w] # NoValue) =>
              result' = LeastOf({sweepMin[w] : w \in Workers})
      ]_vars

C11_Witness ==
    /\ Returned("GetTimeStepEstimate")
    /\ S = S0
    /\ \A w \in Workers : swept[w] = AllPoints /\ sweepMin[w] # NoValue
    /\ result = Fin(1)
    /\ dt_est[1] = Fin(1)
    /\ dt_est[2] = Fin(2)

\* C12 (as claimed): ResetTimeStepEstimate and GetTimeStepEstimate both leave
\* the flag and every store field other than dt_est as they were.
C12_ResetAndReadLeaveFlagAndStore ==
    [][ (op' \in {"ResetTimeStepEstimate", "GetTimeStepEstimate"}
         /\ pc' # "aborted") =>
            /\ quad_data_is_current' = quad_data_is_current
            /\ stressJinvT' = stressJinvT
            /\ Jac0inv' = Jac0inv
            /\ rho0DetJ0w' = rho0DetJ0w
            /\ h0' = h0
      ]_vars

\* C12 (amended): ResetTimeStepEstimate sets dt_est to +infinity and leaves
\* the flag and every other store field as they were.  GetTimeStepEstimate
\* never clears the flag; on a rank whose flag is false it runs the sweep,
\* which sets the flag and rewrites stressJinvT and dt_est.  Issued while the
\* flag is true it runs no sweep, leaves the flag and every store field as
\* they were, and returns the global minimum of dt_est as it stands.
C12_ResetAndReadFrame ==
    [][ /\ (pc = "idle" /\ op' = "ResetTimeStepEstimate") =>
              /\ dt_est' = [w \in Workers |-> Inf]
              /\ quad_data_is_current' = quad_data_is_current
              /\ stressJinvT' = stressJinvT
              /\ Jac0inv' = Jac0inv
              /\ rho0DetJ0w' = rho0DetJ0w
              /\ h0' = h0
        /\ op' = "GetTimeStepEstimate" =>
              \A w \in Workers :
                  quad_data_is_current[w] => quad_data_is_current'[w]
        /\ (op' = "GetTimeStepEstimate" /\ pc \in {"idle", "update"}) =>
              \A w \in Workers :
                  quad_data_is_current[w] =>
                      /\ swept'[w] = 0
                      /\ dt_est'[w] = dt_est[w]
                      /\ stressJinvT'[w] = stressJinvT[w]
                      /\ Jac0inv'[w] = Jac0inv[w]
                      /\ rho0DetJ0w'[w] = rho0DetJ0w[w]
                      /\ h0'[w] = h0[w]
        /\ (pc = "updated" /\ op = "GetTimeStepEstimate" /\ pc' = "idle") =>
              /\ quad_data_is_current' = quad_data_is_current
              /\ UNCHANGED store
              /\ \E w \in Workers : result' = dt_est[w]
              /\ (\A w \in Workers : dt_est[w] # NaN) =>
                    \A w \in Workers : ~FLess(dt_est[w], result')
      ]_vars

C12_Witness ==
    /\ Returned("GetTimeStepEstimate")
    /\ readSeq = 2
    /\ S = S0
    /\ \A w \in Workers : quad_data_is_current[w] /\ swept[w] = 0
    /\ result = Inf

====
